---- MODULE Spec2Model ----
(***************************************************************************)
(* KmerComm: distributed FASTA ingestion (FastaIndex) and k-mer routing    *)
(* (GetKmerCountMapKeys) over an MPI process grid.                         *)
(*                                                                         *)
(* Every rank runs main(): it is blocked in one collective at a time.  An  *)
(* action <Collective>(r) is the completion of that collective on rank r   *)
(* together with the local code that follows it up to the next collective  *)
(* call of the same rank.                                                  *)
(*                                                                         *)
(* The repository holds two revisions of FastaIndex.cpp; impl selects the  *)
(* one that is compiled: "top" is src/FastaIndex.cpp (driven by main.cpp), *)
(* "src" is src/src/FastaIndex.cpp.                                        *)
(***************************************************************************)
EXTENDS Integers, Sequences, FiniteSets, TLC

VARIABLES
    nprocs,      \* commgrid->GetSize()
    impl,        \* which FastaIndex.cpp is compiled
    fai_ok,      \* the .fai file can be opened on rank 0
    seqs,        \* the sequences the FASTA file was written from
    linebases,   \* wrap width the FASTA file was written with
    fasta,       \* bytes of the FASTA file
    faidx,       \* lines of the .fai file
    pc,          \* per rank: the collective the rank is blocked in
    issued,      \* per rank: the collectives it has called, in order
    allrecords,  \* rank 0: root_records / allrecords
    sendcounts,  \* rank 0: MPI_Scatterv sendcounts
    displs,      \* rank 0: MPI_Scatterv displs
    recvcount,   \* per rank
    myrecords,   \* per rank: records / myrecords
    startpos,    \* per rank
    endpos,      \* per rank
    mychunk,     \* per rank: bytes read by the collective read
    overread,    \* per rank: the unwrap loop read outside mychunk
    reads,       \* per rank: the materialized reads
    hll,         \* per rank: the sketch
    kmerbuckets, \* per rank: outgoing buckets, one per destination
    sendcnt,     \* per rank: bytes sent to each destination
    recvcnt,     \* per rank: bytes received from each source
    sdispls,     \* per rank
    rdispls,     \* per rank
    totsend,     \* per rank
    totrecv,     \* per rank
    sendbuf,     \* per rank
    recvbuf,     \* per rank
    kmermap      \* per rank: key set of the KmerCountMap

vars == <<nprocs, impl, fai_ok, seqs, linebases, fasta, faidx, pc, issued,
          allrecords, sendcounts, displs, recvcount, myrecords, startpos,
          endpos, mychunk, overread, reads, hll, kmerbuckets, sendcnt,
          recvcnt, sdispls, rdispls, totsend, totrecv, sendbuf, recvbuf,
          kmermap>>

inputVars == <<nprocs, impl, fai_ok, seqs, linebases, fasta, faidx>>
indexVars == <<allrecords, sendcounts, displs, recvcount, myrecords>>
readVars == <<startpos, endpos, mychunk, overread, reads>>
routeVars == <<hll, kmerbuckets, sendcnt, recvcnt, sdispls, rdispls,
               totsend, totrecv, sendbuf, recvbuf, kmermap>>

(***************************************************************************)
(* Bounds of the model.                                                    *)
(***************************************************************************)
MaxProcs == 3
MaxReads == 5
MaxMixed == 3
MaxMixedProcs == 2
MaxFairProcs == 2

(***************************************************************************)
(* Program constants.                                                      *)
(***************************************************************************)
kmer_size == 7

Min(a, b) == IF a < b THEN a ELSE b
Max(a, b) == IF a > b THEN a ELSE b

Ranks == 0 .. (nprocs - 1)

NL == "\n"
NUL == "0"
OOB == "?"

RECURSIVE SumTo(_, _)
(* f[0] + ... + f[n-1] *)
SumTo(f, n) == IF n <= 0 THEN 0 ELSE SumTo(f, n - 1) + f[n - 1]

RECURSIVE FlattenTo(_, _)
(* ss[1] \o ... \o ss[n] *)
FlattenTo(ss, n) == IF n <= 0 THEN <<>> ELSE FlattenTo(ss, n - 1) \o ss[n]

Flatten(ss) == FlattenTo(ss, Len(ss))

(***************************************************************************)
(* The input files.  A FASTA file is written from a list of sequences,     *)
(* each as a header line followed by the sequence wrapped at w bases per   *)
(* line with a one-byte line terminator; the last terminator of the file   *)
(* may be missing.  Its .fai has one line per sequence: name, length,      *)
(* offset of the first base, bases per line, bytes per line.               *)
(***************************************************************************)
Str(s) == [i \in 1 .. Len(s) |-> s[i]]

Reads == << <<"A","C","C","A","G","T","A","A">>,
           <<"C","G","T","A","C","G","T">> >>

ReadPool == { Reads[i] : i \in 1 .. Len(Reads) }

(* n sequences taken in turn from Reads, beginning with Reads[first] *)
Alternating(first, n) ==
    [i \in 1 .. n |-> Reads[((first + i - 2) % Len(Reads)) + 1]]

WrapWidths == {3, 8}

Header == <<">", "s", NL>>

NumLines(len, w) == (len + w - 1) \div w

Wrapped(s, w) ==
    LET tot == Len(s) + NumLines(Len(s), w)
    IN  [i \in 1 .. tot |->
            IF i = tot \/ i % (w + 1) = 0 THEN NL ELSE s[i - (i \div (w + 1))]]

RECURSIVE FastaBytes(_, _)
FastaBytes(ss, w) ==
    IF ss = <<>> THEN <<>>
    ELSE Header \o Wrapped(Head(ss), w) \o FastaBytes(Tail(ss), w)

FastaFile(ss, w, finalNL) ==
    LET b == FastaBytes(ss, w)
    IN  IF finalNL \/ b = <<>> THEN b ELSE SubSeq(b, 1, Len(b) - 1)

RECURSIVE FaiLines(_, _, _)
FaiLines(ss, w, off) ==
    IF ss = <<>> THEN <<>>
    ELSE LET s == Head(ss)
             lb == Min(w, Len(s))
             line == <<"s", Len(s), off + Len(Header), lb, lb + 1>>
         IN  <<line>> \o FaiLines(Tail(ss), w,
                                  off + Len(Header) + Len(Wrapped(s, w)))

SeqsUpTo(S, n) == UNION { [1 .. m -> S] : m \in 0 .. n }


(***************************************************************************)
(* Collective calls.  A rank that has called a collective is blocked in    *)
(* it until the ranks whose data it needs have called it too.              *)
(***************************************************************************)
Entered(q, c) == \E i \in 1 .. Len(issued[q]) : issued[q][i] = c

AllEntered(c) == \A q \in Ranks : Entered(q, c)

(* a rooted scatter completes on a rank once the root has called it *)
ScatterReady(r, c) == Entered(0, c)

(* a rooted gather completes on the root once every rank has called it *)
GatherReady(r, c) == r # 0 \/ AllEntered(c)

(* an exclusive scan completes on a rank once all lower ranks called it *)
ExscanReady(r, c) == \A q \in Ranks : q < r => Entered(q, c)

Call(r, c) ==
    /\ pc' = [pc EXCEPT ![r] = c]
    /\ issued' = [issued EXCEPT ![r] = Append(@, c)]

Crash(r) ==
    /\ pc' = [pc EXCEPT ![r] = "crashed"]
    /\ UNCHANGED issued

(***************************************************************************)
(* FastaIndex::FastaIndex                                                  *)
(***************************************************************************)
GetFaidxRecord(line) == [len |-> line[2], pos |-> line[3], bases |-> line[4]]

(* the getline loop of rank 0; a stream that failed to open yields no line *)
ParseFaidx == IF fai_ok THEN [i \in 1 .. Len(faidx) |-> GetFaidxRecord(faidx[i])]
              ELSE <<>>

(* variant: the remainder goes to rank 0 instead of the last rank *)
SendCountsRemainderFirst(num_records, np) ==
    LET records_per_proc == num_records \div np
    IN  [i \in 0 .. (np - 1) |->
            IF i > 0 THEN records_per_proc
            ELSE num_records - (np - 1) * records_per_proc]

(* variant: the remainder is spread, one record each, over the first ranks *)
SendCountsBalanced(num_records, np) ==
    [i \in 0 .. (np - 1) |->
        (num_records \div np) + (IF i < num_records % np THEN 1 ELSE 0)]

SendCounts(num_records, np) ==
    LET records_per_proc == num_records \div np
    IN  [i \in 0 .. (np - 1) |->
            IF i < np - 1 THEN records_per_proc
            ELSE num_records - (np - 1) * records_per_proc]

(* variant: the partial_sum over the counts is missing *)
DisplsUnset(counts, np) == [i \in 0 .. (np - 1) |-> 0]

Displs(counts, np) == [i \in 0 .. (np - 1) |-> SumTo(counts, i)]

Build(r) ==
    /\ pc[r] = "start"
    /\ IF r = 0
       THEN /\ allrecords' = ParseFaidx
            /\ sendcounts' = SendCounts(Len(allrecords'), nprocs)
            /\ displs' = Displs(sendcounts', nprocs)
       ELSE UNCHANGED <<allrecords, sendcounts, displs>>
    /\ Call(r, "ScatterCount")
    /\ UNCHANGED <<inputVars, recvcount, myrecords, readVars, routeVars>>

ScatterCount(r) ==
    /\ pc[r] = "ScatterCount"
    /\ ScatterReady(r, "ScatterCount")
    /\ recvcount' = [recvcount EXCEPT ![r] = sendcounts[r]]
    /\ myrecords' = [myrecords EXCEPT ![r] =
                        [i \in 1 .. sendcounts[r] |-> [len |-> 0, pos |-> 0, bases |-> 0]]]
    /\ Call(r, "ScatterRecords")
    /\ UNCHANGED <<inputVars, allrecords, sendcounts, displs, readVars, routeVars>>

(***************************************************************************)
(* Entry of FastaIndex::GetMyReads / GetReadsFromRecords up to the         *)
(* collective open.  records.front() and records.back() of an empty vector *)
(* are undefined: the rank faults, or goes on with whatever it read.       *)
(***************************************************************************)
GarbageRanges == { <<0, 1>> }

ByteRange(recs) ==
    IF recs = <<>>
    THEN {[crash |-> TRUE, s |-> 0, e |-> 0]}
         \cup {[crash |-> FALSE, s |-> g[1], e |-> g[2]] : g \in GarbageRanges}
    ELSE LET first_record == recs[1]
             last_record == recs[Len(recs)]
         IN  IF last_record.bases = 0
             THEN {[crash |-> TRUE, s |-> 0, e |-> 0]}
             ELSE {[crash |-> FALSE,
                    s |-> first_record.pos,
                    e |-> last_record.pos + last_record.len
                            + (last_record.len \div last_record.bases)]}

BeginMaterialize(r, recs) ==
    \E o \in ByteRange(recs) :
        IF o.crash
        THEN /\ Crash(r)
             /\ UNCHANGED <<startpos, endpos>>
        ELSE /\ Call(r, "FileOpen")
             /\ startpos' = [startpos EXCEPT ![r] = o.s]
             /\ endpos' = [endpos EXCEPT ![r] = o.e]

ScatterRecords(r) ==
    /\ pc[r] = "ScatterRecords"
    /\ ScatterReady(r, "ScatterRecords")
    /\ myrecords' = [myrecords EXCEPT ![r] =
                        [i \in 1 .. recvcount[r] |-> allrecords[displs[r] + i]]]
    /\ IF impl = "top"
       THEN /\ Call(r, "Gather")
            /\ UNCHANGED <<startpos, endpos>>
       ELSE BeginMaterialize(r, myrecords'[r])
    /\ UNCHANGED <<inputVars, allrecords, sendcounts, displs, recvcount,
                   mychunk, overread, reads, routeVars>>

(***************************************************************************)
(* FastaIndex::PrintInfo (src/FastaIndex.cpp, called by main)              *)
(***************************************************************************)
(* variant: only the root goes on to the MPI_Gatherv_c *)
GatherRootOnly(r) ==
    /\ pc[r] = "Gather"
    /\ GatherReady(r, "Gather")
    /\ IF r = 0
       THEN /\ Call(r, "Gatherv")
            /\ UNCHANGED <<startpos, endpos>>
       ELSE BeginMaterialize(r, myrecords[r])
    /\ UNCHANGED <<inputVars, indexVars, mychunk, overread, reads, routeVars>>

Gather(r) ==
    /\ pc[r] = "Gather"
    /\ GatherReady(r, "Gather")
    /\ Call(r, "Gatherv")
    /\ UNCHANGED <<inputVars, indexVars, readVars, routeVars>>

Gatherv(r) ==
    /\ pc[r] = "Gatherv"
    /\ GatherReady(r, "Gatherv")
    /\ BeginMaterialize(r, myrecords[r])
    /\ UNCHANGED <<inputVars, indexVars, mychunk, overread, reads, routeVars>>


(***************************************************************************)
(* FastaIndex::GetMyReads / GetReadsFromRecords                            *)
(***************************************************************************)
(* variant: the clamp stops one byte short of the end of the file *)
ClampEndShort(e, filesize) ==
    IF impl = "top" THEN Max(e, filesize) ELSE Min(e, filesize - 1)

ClampEnd(e, filesize) ==
    IF impl = "top" THEN Max(e, filesize) ELSE Min(e, filesize)

(* variant: every rank opens the file on its own communicator *)
FileOpenAlone(r) ==
    /\ pc[r] = "FileOpen"
    /\ LET filesize == Len(fasta)
           e == ClampEnd(endpos[r], filesize)
           mychunksize == e - startpos[r]
       IN  /\ endpos' = [endpos EXCEPT ![r] = e]
           /\ IF mychunksize < 0
              THEN /\ Crash(r)
                   /\ UNCHANGED mychunk
              ELSE /\ mychunk' = [mychunk EXCEPT ![r] = [i \in 1 .. mychunksize |-> NUL]]
                   /\ Call(r, "FileRead")
    /\ UNCHANGED <<inputVars, indexVars, startpos, overread, reads, routeVars>>

FileOpen(r) ==
    /\ pc[r] = "FileOpen"
    /\ AllEntered("FileOpen")
    /\ LET filesize == Len(fasta)
           e == ClampEnd(endpos[r], filesize)
           mychunksize == e - startpos[r]
       IN  /\ endpos' = [endpos EXCEPT ![r] = e]
           /\ IF mychunksize < 0
              THEN /\ Crash(r)
                   /\ UNCHANGED mychunk
              ELSE /\ mychunk' = [mychunk EXCEPT ![r] = [i \in 1 .. mychunksize |-> NUL]]
                   /\ Call(r, "FileRead")
    /\ UNCHANGED <<inputVars, indexVars, startpos, overread, reads, routeVars>>

(* bytes at file offsets startpos .. startpos + count - 1; a read that     *)
(* runs past the end of the file leaves the rest of the buffer untouched   *)
ReadAt(buf, off) ==
    [i \in 1 .. Len(buf) |-> IF off + i <= Len(fasta) THEN fasta[off + i] ELSE buf[i]]

(* variant: the file is never closed *)
FileReadNoClose(r) ==
    /\ pc[r] = "FileRead"
    /\ mychunk' = [mychunk EXCEPT ![r] = ReadAt(mychunk[r], startpos[r])]
    /\ Call(r, "Exscan")
    /\ UNCHANGED <<inputVars, indexVars, startpos, endpos, overread, reads, routeVars>>

FileRead(r) ==
    /\ pc[r] = "FileRead"
    /\ mychunk' = [mychunk EXCEPT ![r] = ReadAt(mychunk[r], startpos[r])]
    /\ Call(r, "FileClose")
    /\ UNCHANGED <<inputVars, indexVars, startpos, endpos, overread, reads, routeVars>>

FileClose(r) ==
    /\ pc[r] = "FileClose"
    /\ Call(r, "Exscan")
    /\ UNCHANGED <<inputVars, indexVars, readVars, routeVars>>

RECURSIVE CopyRunsWholeLines(_, _, _, _)
(* variant: every run copies a whole line, also the last, shorter one *)
CopyRunsWholeLines(chunkpos, bases, remain, locpos) ==
    IF remain <= 0 THEN <<>>
    ELSE LET cnt == bases
         IN  [i \in 1 .. cnt |-> chunkpos + locpos + i - 1]
             \o CopyRunsWholeLines(chunkpos, bases, remain - cnt, locpos + (cnt + 1))

RECURSIVE CopyRunsNoSkip(_, _, _, _)
(* variant: the line terminator between two runs is not skipped *)
CopyRunsNoSkip(chunkpos, bases, remain, locpos) ==
    IF remain <= 0 THEN <<>>
    ELSE LET cnt == Min(bases, remain)
         IN  [i \in 1 .. cnt |-> chunkpos + locpos + i - 1]
             \o CopyRunsNoSkip(chunkpos, bases, remain - cnt, locpos + cnt)

RECURSIVE CopyRunsSkipTwo(_, _, _, _)
(* variant: two bytes are skipped after every run *)
CopyRunsSkipTwo(chunkpos, bases, remain, locpos) ==
    IF remain <= 0 THEN <<>>
    ELSE LET cnt == Min(bases, remain)
         IN  [i \in 1 .. cnt |-> chunkpos + locpos + i - 1]
             \o CopyRunsSkipTwo(chunkpos, bases, remain - cnt, locpos + (cnt + 2))

RECURSIVE CopyRuns(_, _, _, _)
(* the offsets into mychunk that the unwrap loop of one record copies from *)
CopyRuns(chunkpos, bases, remain, locpos) ==
    IF remain <= 0 THEN <<>>
    ELSE LET cnt == Min(bases, remain)
         IN  [i \in 1 .. cnt |-> chunkpos + locpos + i - 1]
             \o CopyRuns(chunkpos, bases, remain - cnt, locpos + (cnt + 1))

SourceOffsets(rec, start) == CopyRuns(rec.pos - start, rec.bases, rec.len, 0)

InChunk(chunk, off) == 0 <= off /\ off < Len(chunk)

ByteAt(chunk, off) == IF InChunk(chunk, off) THEN chunk[off + 1] ELSE OOB

Unwrap(rec, chunk, start) ==
    LET offs == SourceOffsets(rec, start)
    IN  [i \in 1 .. Len(offs) |-> ByteAt(chunk, offs[i])]

UnwrapAll(recs, chunk, start) ==
    [i \in 1 .. Len(recs) |-> Unwrap(recs[i], chunk, start)]

OverRead(recs, chunk, start) ==
    \E i \in 1 .. Len(recs) :
        LET offs == SourceOffsets(recs[i], start)
        IN  \E j \in 1 .. Len(offs) : ~InChunk(chunk, offs[j])


(***************************************************************************)
(* The k-mer primitive (Kmer.h), the enumerator ForeachKmer, the handlers  *)
(* and the sketch (HyperLogLog) are used by GetKmerCountMapKeys but are    *)
(* not part of the sources; they are modelled from the specification.      *)
(***************************************************************************)
Nucleotides == <<"A", "C", "G", "T">>

Code(c) == IF c = "C" THEN 1 ELSE IF c = "G" THEN 2 ELSE IF c = "T" THEN 3 ELSE 0

Complement(c) ==
    IF c = "A" THEN "T" ELSE IF c = "T" THEN "A"
    ELSE IF c = "C" THEN "G" ELSE IF c = "G" THEN "C" ELSE c

ReverseComplement(s) == [i \in 1 .. Len(s) |-> Complement(s[Len(s) + 1 - i])]

LexLess(a, b) ==
    \E i \in 1 .. Min(Len(a), Len(b)) :
        /\ Code(a[i]) < Code(b[i])
        /\ \A j \in 1 .. (i - 1) : a[j] = b[j]

Canonical(s) ==
    LET rc == ReverseComplement(s) IN IF LexLess(rc, s) THEN rc ELSE s

(* the canonical k-mers of the windows of one read, by window offset *)
KmersOfRead(s, k) ==
    IF Len(s) < k THEN <<>>
    ELSE [i \in 1 .. (Len(s) - k + 1) |-> Canonical(SubSeq(s, i, i + k - 1))]

(* the seed k-mers the handler is called with, in call order *)
ForeachKmer(myreads, k) ==
    Flatten([i \in 1 .. Len(myreads) |-> KmersOfRead(myreads[i], k)])

N_BYTES == 8 * ((kmer_size + 31) \div 32)

Pow4(i) == IF i = 0 THEN 1 ELSE IF i = 1 THEN 4 ELSE IF i = 2 THEN 16 ELSE 64

(* TKmer::CopyDataInto: two bits per nucleotide, four nucleotides a byte *)
PackedByte(km, j) ==
    LET d(i) == IF 4 * (j - 1) + i + 1 <= Len(km)
                THEN Code(km[4 * (j - 1) + i + 1]) * Pow4(i) ELSE 0
    IN  d(0) + d(1) + d(2) + d(3)

CopyDataInto(km) == [j \in 1 .. N_BYTES |-> PackedByte(km, j)]

(* TKmer(const void *mem) *)
KmerFromBytes(bytes) ==
    [i \in 1 .. kmer_size |->
        Nucleotides[((bytes[((i - 1) \div 4) + 1] \div Pow4((i - 1) % 4)) % 4) + 1]]

RECURSIVE HashBytes(_, _)
(* the hash of the first n bytes *)
HashBytes(bytes, n) ==
    IF n <= 0 THEN 5381 ELSE (HashBytes(bytes, n - 1) * 33 + bytes[n]) % 65521

GetHash(km) == HashBytes(CopyDataInto(km), N_BYTES)

(* KmerPartitionHandler: the destination of a k-mer *)
Owner(km, np) == GetHash(km) % np

Range(f) == { f[x] : x \in DOMAIN f }

(* ForeachKmer(myreads, partitioner): bucket i holds, in handling order,   *)
(* the seed k-mers whose destination is i                                  *)
Partition(myreads, np) ==
    [i \in 0 .. (np - 1) |->
        SelectSeq(ForeachKmer(myreads, kmer_size), LAMBDA km : Owner(km, np) = i)]

(* ForeachKmer(myreads, estimator) *)
Estimate(myreads) == { GetHash(km) : km \in Range(ForeachKmer(myreads, kmer_size)) }

(***************************************************************************)
(* GetKmerCountMapKeys                                                     *)
(***************************************************************************)
BeginRouter(r, myreads) ==
    /\ hll' = [hll EXCEPT ![r] = Estimate(myreads)]
    /\ Call(r, "AllReduce")

Exscan(r) ==
    /\ pc[r] = "Exscan"
    /\ ExscanReady(r, "Exscan")
    /\ overread' = [overread EXCEPT ![r] =
                       OverRead(myrecords[r], mychunk[r], startpos[r])]
    /\ \/ /\ reads' = [reads EXCEPT ![r] =
                           UnwrapAll(myrecords[r], mychunk[r], startpos[r])]
          /\ IF impl = "top"
             THEN BeginRouter(r, reads'[r])
             ELSE /\ Call(r, "LogFlush")
                  /\ UNCHANGED hll
       \/ /\ overread'[r]
          /\ Crash(r)
          /\ UNCHANGED <<reads, hll>>
    /\ UNCHANGED <<inputVars, indexVars, startpos, endpos, mychunk,
                   kmerbuckets, sendcnt, recvcnt, sdispls, rdispls,
                   totsend, totrecv, sendbuf, recvbuf, kmermap>>

(* Logger::Flush (src/src/FastaIndex.cpp): lines gathered to rank 0 *)
LogFlush(r) ==
    /\ pc[r] \in {"LogFlush", "LogFlush2"}
    /\ GatherReady(r, pc[r])
    /\ IF pc[r] = "LogFlush"
       THEN /\ Call(r, "Exscan2")
            /\ UNCHANGED hll
       ELSE BeginRouter(r, reads[r])
    /\ UNCHANGED <<inputVars, indexVars, readVars,
                   kmerbuckets, sendcnt, recvcnt, sdispls, rdispls,
                   totsend, totrecv, sendbuf, recvbuf, kmermap>>

(* MPI_Exscan of FastaIndex::GetMyReads() (src/src/FastaIndex.cpp) *)
Exscan2(r) ==
    /\ pc[r] = "Exscan2"
    /\ ExscanReady(r, "Exscan2")
    /\ Call(r, "LogFlush2")
    /\ UNCHANGED <<inputVars, indexVars, readVars, routeVars>>

INT_MAX == 2147483647

(* int + count, converted back to int: wraps modulo 2^32 *)
AddInt(a, b) ==
    IF a > 0 /\ b > INT_MAX - a THEN ((a - INT_MAX) + (b - INT_MAX)) - 2 ELSE a + b

RECURSIVE Accumulate(_, _, _)
(* std::accumulate(first, last, 0): the accumulator is an int *)
Accumulate(f, n, init) ==
    IF n <= 0 THEN init ELSE AddInt(Accumulate(f, n - 1, init), f[n - 1])

(* variant: displs[i] = displs[i-1] + cnt[i] *)
PartialSumInclusive(cnt, np) ==
    [i \in 0 .. (np - 1) |-> IF i = 0 THEN 0 ELSE SumTo(cnt, i + 1) - cnt[0]]

(* std::partial_sum(cnt.begin(), cnt.end()-1, displs.begin()+1) *)
PartialSum(cnt, np) == [i \in 0 .. (np - 1) |-> SumTo(cnt, i)]

(* variant: every bucket is packed at the start of the send buffer *)
PackAtStart(n, buckets, sd, np) ==
    [p \in 1 .. n |->
        LET W == { i \in 0 .. (np - 1) : p <= Len(buckets[i]) * N_BYTES }
        IN  IF W = {} THEN 0
            ELSE LET i == CHOOSE x \in W : \A y \in W : y <= x
                     o == p - 1
                 IN  PackedByte(buckets[i][(o \div N_BYTES) + 1], (o % N_BYTES) + 1)]

(* the packing loop: the j-th k-mer of bucket i is copied to               *)
(* sdispls[i] + (j-1)*N_BYTES; of the buckets written over a byte the last *)
(* one stays; a write past the end of the buffer does not land in it       *)
Pack(n, buckets, sd, np) ==
    [p \in 1 .. n |->
        LET W == { i \in 0 .. (np - 1) :
                     sd[i] < p /\ p <= sd[i] + Len(buckets[i]) * N_BYTES }
        IN  IF W = {} THEN 0
            ELSE LET i == CHOOSE x \in W : \A y \in W : y <= x
                     o == p - sd[i] - 1
                 IN  PackedByte(buckets[i][(o \div N_BYTES) + 1], (o % N_BYTES) + 1)]

Zeros(n) == [i \in 1 .. n |-> 0]

(* variant: sendcnt counts k-mers, not bytes *)
AllReduceCountKmers(r) ==
    /\ pc[r] = "AllReduce"
    /\ AllEntered("AllReduce")
    /\ hll' = [hll EXCEPT ![r] = UNION { hll[q] : q \in Ranks }]
    /\ kmerbuckets' = [kmerbuckets EXCEPT ![r] = Partition(reads[r], nprocs)]
    /\ sendcnt' = [sendcnt EXCEPT ![r] =
                      [i \in Ranks |-> Len(kmerbuckets'[r][i])]]
    /\ Call(r, "AllToAll")
    /\ UNCHANGED <<inputVars, indexVars, readVars, recvcnt, sdispls, rdispls,
                   totsend, totrecv, sendbuf, recvbuf, kmermap>>

AllReduce(r) ==
    /\ pc[r] = "AllReduce"
    /\ AllEntered("AllReduce")
    /\ hll' = [hll EXCEPT ![r] = UNION { hll[q] : q \in Ranks }]
    /\ kmerbuckets' = [kmerbuckets EXCEPT ![r] = Partition(reads[r], nprocs)]
    /\ sendcnt' = [sendcnt EXCEPT ![r] =
                      [i \in Ranks |-> Len(kmerbuckets'[r][i]) * N_BYTES]]
    /\ Call(r, "AllToAll")
    /\ UNCHANGED <<inputVars, indexVars, readVars, recvcnt, sdispls, rdispls,
                   totsend, totrecv, sendbuf, recvbuf, kmermap>>

AllToAll(r) ==
    /\ pc[r] = "AllToAll"
    /\ AllEntered("AllToAll")
    /\ recvcnt' = [recvcnt EXCEPT ![r] = [j \in Ranks |-> sendcnt[j][r]]]
    /\ sdispls' = [sdispls EXCEPT ![r] = PartialSum(sendcnt[r], nprocs)]
    /\ rdispls' = [rdispls EXCEPT ![r] = PartialSum(recvcnt'[r], nprocs)]
    /\ totsend' = [totsend EXCEPT ![r] = Accumulate(sendcnt[r], nprocs, 0)]
    /\ totrecv' = [totrecv EXCEPT ![r] = Accumulate(recvcnt'[r], nprocs, 0)]
    /\ \/ /\ totsend'[r] >= 0 /\ totrecv'[r] >= 0
          /\ sendbuf' = [sendbuf EXCEPT ![r] =
                            Pack(totsend'[r], kmerbuckets[r], sdispls'[r], nprocs)]
          /\ kmerbuckets' = [kmerbuckets EXCEPT ![r] = [i \in Ranks |-> <<>>]]
          /\ recvbuf' = [recvbuf EXCEPT ![r] = Zeros(totrecv'[r])]
          /\ Call(r, "AllToAllV")
       \/ /\ \/ totsend'[r] < 0
             \/ totrecv'[r] < 0
             \/ \E i \in Ranks : sdispls'[r][i] + sendcnt[r][i] > totsend'[r]
          /\ Crash(r)
          /\ UNCHANGED <<sendbuf, kmerbuckets, recvbuf>>
    /\ UNCHANGED <<inputVars, indexVars, readVars, hll, sendcnt, kmermap>>

(* the sum of counts as a number of k-mers: every count is a multiple of   *)
(* N_BYTES (line 111), and the sum of the bytes may be past INT_MAX        *)
KmersIn(cnt, np) == SumTo([i \in 0 .. (np - 1) |-> cnt[i] \div N_BYTES], np)

(* tot is exactly the number of bytes of the counts *)
ExactTotal(tot, cnt, np) ==
    tot >= 0 /\ tot % N_BYTES = 0 /\ tot \div N_BYTES = KmersIn(cnt, np)

(* lines 118-138 and 170 on the counts alone, the contents of the buckets  *)
(* and of the two buffers left out: the count exchange, the two totals and *)
(* the two allocations.  Vector<uint8_t>(n, 0) with a negative n asks for  *)
(* more than max_size() elements and throws; with a buffer shorter than    *)
(* the counts, the packing loop and the exchange write past its end, which *)
(* is undefined: the rank faults, or goes on.                              *)
AllToAllCounts(r) ==
    /\ pc[r] = "AllToAll"
    /\ AllEntered("AllToAll")
    /\ recvcnt' = [recvcnt EXCEPT ![r] = [j \in Ranks |-> sendcnt[j][r]]]
    /\ totsend' = [totsend EXCEPT ![r] = Accumulate(sendcnt[r], nprocs, 0)]
    /\ totrecv' = [totrecv EXCEPT ![r] = Accumulate(recvcnt'[r], nprocs, 0)]
    /\ \/ /\ totsend'[r] >= 0 /\ totrecv'[r] >= 0
          /\ Call(r, "AllToAllV")
       \/ /\ \/ totsend'[r] < 0
             \/ totrecv'[r] < 0
             \/ ~ExactTotal(totsend'[r], sendcnt[r], nprocs)
             \/ ~ExactTotal(totrecv'[r], recvcnt'[r], nprocs)
          /\ Crash(r)
    /\ UNCHANGED <<inputVars, indexVars, readVars, hll, kmerbuckets, sendcnt,
                   sdispls, rdispls, sendbuf, recvbuf, kmermap>>

(* variant: the bytes of source j are taken from the start of its buffer *)
ExchangeFromStart(buf, r) ==
    [p \in 1 .. Len(buf) |->
        LET W == { j \in Ranks : rdispls[r][j] < p /\ p <= rdispls[r][j] + recvcnt[r][j] }
        IN  IF W = {} THEN buf[p]
            ELSE LET j == CHOOSE x \in W : \A y \in W : y <= x
                     q == p - rdispls[r][j]
                 IN  IF q <= Len(sendbuf[j]) THEN sendbuf[j][q] ELSE 0]

(* variant: the bytes of source j are taken at the receiver's own          *)
(* displacement for j                                                      *)
ExchangeOwnDispls(buf, r) ==
    [p \in 1 .. Len(buf) |->
        LET W == { j \in Ranks : rdispls[r][j] < p /\ p <= rdispls[r][j] + recvcnt[r][j] }
        IN  IF W = {} THEN buf[p]
            ELSE LET j == CHOOSE x \in W : \A y \in W : y <= x
                     q == sdispls[r][j] + (p - rdispls[r][j])
                 IN  IF q <= Len(sendbuf[j]) THEN sendbuf[j][q] ELSE 0]

(* MPI_Alltoallv on rank r: recvcnt[r][j] bytes of source j, taken from    *)
(* its send buffer at sdispls[j][r], land at rdispls[r][j]                 *)
Exchange(buf, r) ==
    [p \in 1 .. Len(buf) |->
        LET W == { j \in Ranks : rdispls[r][j] < p /\ p <= rdispls[r][j] + recvcnt[r][j] }
        IN  IF W = {} THEN buf[p]
            ELSE LET j == CHOOSE x \in W : \A y \in W : y <= x
                     q == sdispls[j][r] + (p - rdispls[r][j])
                 IN  IF q <= Len(sendbuf[j]) THEN sendbuf[j][q] ELSE 0]

(* variant: the loop stops at the first k-mer that is already in the map *)
KeysOfUntilRepeat(buf, numkmerseeds) ==
    LET mer(i) == KmerFromBytes(SubSeq(buf, (i - 1) * N_BYTES + 1, i * N_BYTES))
    IN  { mer(i) : i \in { n \in 1 .. numkmerseeds :
                              \A a, b \in 1 .. n : a # b => mer(a) # mer(b) } }

(* the deserialization loop *)
KeysOf(buf, numkmerseeds) ==
    { KmerFromBytes(SubSeq(buf, (i - 1) * N_BYTES + 1, i * N_BYTES)) :
        i \in 1 .. numkmerseeds }

(* variant: the exchange waits for a byte from every source *)
AllToAllVNonEmptyOnly(r) ==
    /\ pc[r] = "AllToAllV"
    /\ AllEntered("AllToAllV")
    /\ \A j \in Ranks : recvcnt[r][j] > 0
    /\ recvbuf' = [recvbuf EXCEPT ![r] = Exchange(recvbuf[r], r)]
    /\ kmermap' = [kmermap EXCEPT ![r] = KeysOf(recvbuf'[r], totrecv[r] \div N_BYTES)]
    /\ pc' = [pc EXCEPT ![r] = "ROUTED"]
    /\ UNCHANGED <<inputVars, indexVars, readVars, issued, hll, kmerbuckets,
                   sendcnt, recvcnt, sdispls, rdispls, totsend, totrecv, sendbuf>>

AllToAllV(r) ==
    /\ pc[r] = "AllToAllV"
    /\ AllEntered("AllToAllV")
    /\ recvbuf' = [recvbuf EXCEPT ![r] = Exchange(recvbuf[r], r)]
    /\ kmermap' = [kmermap EXCEPT ![r] = KeysOf(recvbuf'[r], totrecv[r] \div N_BYTES)]
    /\ pc' = [pc EXCEPT ![r] = "ROUTED"]
    /\ UNCHANGED <<inputVars, indexVars, readVars, issued, hll, kmerbuckets,
                   sendcnt, recvcnt, sdispls, rdispls, totsend, totrecv, sendbuf>>

(***************************************************************************)
(* The pipeline                                                            *)
(***************************************************************************)
InitOn(files, maxprocs) ==
    /\ nprocs \in 1 .. maxprocs
    /\ impl \in {"top", "src"}
    /\ fai_ok \in BOOLEAN
    /\ seqs \in files
    /\ fai_ok \/ Len(seqs) <= 1
    /\ linebases \in WrapWidths
    /\ \E finalNL \in BOOLEAN : fasta = FastaFile(seqs, linebases, finalNL)
    /\ faidx = FaiLines(seqs, linebases, 0)
    /\ pc = [r \in Ranks |-> "start"]
    /\ issued = [r \in Ranks |-> <<>>]
    /\ allrecords = <<>>
    /\ sendcounts = <<>>
    /\ displs = <<>>
    /\ recvcount = [r \in Ranks |-> 0]
    /\ myrecords = [r \in Ranks |-> <<>>]
    /\ startpos = [r \in Ranks |-> 0]
    /\ endpos = [r \in Ranks |-> 0]
    /\ mychunk = [r \in Ranks |-> <<>>]
    /\ overread = [r \in Ranks |-> FALSE]
    /\ reads = [r \in Ranks |-> <<>>]
    /\ hll = [r \in Ranks |-> {}]
    /\ kmerbuckets = [r \in Ranks |-> [i \in Ranks |-> <<>>]]
    /\ sendcnt = [r \in Ranks |-> [i \in Ranks |-> 0]]
    /\ recvcnt = [r \in Ranks |-> [i \in Ranks |-> 0]]
    /\ sdispls = [r \in Ranks |-> [i \in Ranks |-> 0]]
    /\ rdispls = [r \in Ranks |-> [i \in Ranks |-> 0]]
    /\ totsend = [r \in Ranks |-> 0]
    /\ totrecv = [r \in Ranks |-> 0]
    /\ sendbuf = [r \in Ranks |-> <<>>]
    /\ recvbuf = [r \in Ranks |-> <<>>]
    /\ kmermap = [r \in Ranks |-> {}]

(* files of up to MaxMixed sequences in any order on up to MaxMixedProcs    *)
(* ranks, and files of up to MaxReads sequences taken in turn on up to     *)
(* MaxProcs ranks                                                          *)
Init ==
    \/ InitOn(SeqsUpTo(ReadPool, MaxMixed), MaxMixedProcs)
    \/ InitOn({ Alternating(first, n) : first \in {1, 2}, n \in 0 .. MaxReads }, MaxProcs)

InitFair == InitOn({ Alternating(1, n) : n \in 0 .. MaxReads }, MaxFairProcs)

Next ==
    \E r \in Ranks :
        \/ Build(r)
        \/ ScatterCount(r)
        \/ ScatterRecords(r)
        \/ Gather(r)
        \/ Gatherv(r)
        \/ FileOpen(r)
        \/ FileRead(r)
        \/ FileClose(r)
        \/ Exscan(r)
        \/ LogFlush(r)
        \/ Exscan2(r)
        \/ AllReduce(r)
        \/ AllToAll(r)
        \/ AllToAllV(r)

Spec == Init /\ [][Next]_vars


(* every process keeps running: a rank that can complete its collective,   *)
(* eventually does                                                         *)
FairSpec == InitFair /\ [][Next]_vars /\ WF_vars(Next)

(***************************************************************************)
(* The buffer totals on large buckets.  Every rank is in the count         *)
(* all-to-all with buckets of up to 2^28 - 1 k-mers; of the buckets only   *)
(* the sizes are kept, as sendcnt.                                         *)
(***************************************************************************)
MaxCountProcs == 2

BucketSizes == {1, 2^27, 2^28 - 1}

UpToAllToAll == <<"ScatterCount", "ScatterRecords", "Gather", "Gatherv", "FileOpen",
                 "FileRead", "FileClose", "Exscan", "AllReduce", "AllToAll">>

InitTotals ==
    /\ nprocs \in 1 .. MaxCountProcs
    /\ impl = "top"
    /\ fai_ok = TRUE
    /\ seqs = <<>>
    /\ linebases = CHOOSE w \in WrapWidths : \A v \in WrapWidths : v <= w
    /\ fasta = <<>>
    /\ faidx = <<>>
    /\ pc = [r \in Ranks |-> "AllToAll"]
    /\ issued = [r \in Ranks |-> UpToAllToAll]
    /\ allrecords = <<>>
    /\ sendcounts = [r \in Ranks |-> 0]
    /\ displs = [r \in Ranks |-> 0]
    /\ recvcount = [r \in Ranks |-> 0]
    /\ myrecords = [r \in Ranks |-> <<>>]
    /\ startpos = [r \in Ranks |-> 0]
    /\ endpos = [r \in Ranks |-> 0]
    /\ mychunk = [r \in Ranks |-> <<>>]
    /\ overread = [r \in Ranks |-> FALSE]
    /\ reads = [r \in Ranks |-> <<>>]
    /\ hll = [r \in Ranks |-> {}]
    /\ kmerbuckets = [r \in Ranks |-> [i \in Ranks |-> <<>>]]
    /\ sendcnt \in [Ranks -> [Ranks -> { n * N_BYTES : n \in BucketSizes }]]
    /\ recvcnt = [r \in Ranks |-> [i \in Ranks |-> 0]]
    /\ sdispls = [r \in Ranks |-> [i \in Ranks |-> 0]]
    /\ rdispls = [r \in Ranks |-> [i \in Ranks |-> 0]]
    /\ totsend = [r \in Ranks |-> 0]
    /\ totrecv = [r \in Ranks |-> 0]
    /\ sendbuf = [r \in Ranks |-> <<>>]
    /\ recvbuf = [r \in Ranks |-> <<>>]
    /\ kmermap = [r \in Ranks |-> {}]

NextTotals == \E r \in Ranks : AllToAllCounts(r)

TotalsSpec == InitTotals /\ [][NextTotals]_vars

(***************************************************************************)
(* Properties                                                              *)
(***************************************************************************)
NumRecords == Len(faidx)
ValidInput == fai_ok /\ NumRecords >= nprocs
FaiRecords == [i \in 1 .. Len(faidx) |-> GetFaidxRecord(faidx[i])]

CountKnown(r) == Entered(r, "ScatterRecords")
Indexed(r) == CountKnown(r) /\ pc[r] # "ScatterRecords"
Materialized(r) == Entered(r, "AllReduce") \/ Entered(r, "LogFlush")
Routed(r) == pc[r] = "ROUTED"
AllIndexed == \A r \in Ranks : Indexed(r)
AllMaterialized == \A r \in Ranks : Materialized(r)
AllRouted == \A r \in Ranks : Routed(r)

SliceLen(r) == Len(myrecords[r])
SliceSizes == [r \in Ranks |-> SliceLen(r)]
RankOrder(f) == [i \in 1 .. nprocs |-> f[i - 1]]

(* the canonical k-mers of all windows of all reads held by any rank *)
WindowKmers(s) ==
    { Canonical(SubSeq(s, i, i + kmer_size - 1)) : i \in 1 .. (Len(s) - kmer_size + 1) }
GlobalKmers ==
    UNION { UNION { WindowKmers(reads[q][i]) : i \in 1 .. Len(reads[q]) } : q \in Ranks }

(* C1: after the router has completed on all ranks, the key set of rank    *)
(* r's map is exactly the set of canonical k-mers of the windows of the    *)
(* reads of any rank whose owner is r.                                     *)
C1_OwnedKeySet ==
    AllRouted =>
        \A r \in Ranks : kmermap[r] = { km \in GlobalKmers : Owner(km, nprocs) = r }

C1_Witness ==
    /\ AllRouted /\ nprocs = 3
    /\ \A r \in Ranks : kmermap[r] # {}
    /\ \E r \in Ranks : \E km \in kmermap[r] :
          /\ km \notin UNION { WindowKmers(reads[r][i]) : i \in 1 .. Len(reads[r]) }
          /\ Cardinality({ q \in Ranks : km \in UNION { WindowKmers(reads[q][i]) :
                                                         i \in 1 .. Len(reads[q]) } }) = 2

(* C2: after the router has finished, every canonical k-mer of the dataset *)
(* is a key on exactly one rank, its owner, and the key sets of distinct   *)
(* ranks are disjoint.                                                     *)
C2_ExactlyOneOwner ==
    AllRouted =>
        /\ \A km \in GlobalKmers :
              { r \in Ranks : km \in kmermap[r] } = { Owner(km, nprocs) }
        /\ \A r, q \in Ranks : r # q => kmermap[r] \cap kmermap[q] = {}

C2_Witness ==
    /\ AllRouted /\ nprocs = 2
    /\ Cardinality(GlobalKmers) = 3
    /\ kmermap[0] # {} /\ kmermap[1] # {}
    /\ \E r \in Ranks : Len(reads[r]) >= 2 /\ reads[r][1] = reads[r][2]


(* C3: with N index records on P ranks, each of the ranks 0..P-2 is given  *)
(* floor(N/P) records and rank P-1 the remaining N - (P-1)*floor(N/P), so  *)
(* the slice sizes sum to N.                                               *)
C3_SliceSizes ==
    fai_ok =>
        /\ \A r \in Ranks :
              /\ CountKnown(r) =>
                    recvcount[r] = IF r < nprocs - 1
                                   THEN NumRecords \div nprocs
                                   ELSE NumRecords - (nprocs - 1) * (NumRecords \div nprocs)
              /\ Indexed(r) => SliceLen(r) = recvcount[r]
        /\ AllIndexed => SumTo(SliceSizes, nprocs) = NumRecords

C3_Witness ==
    /\ fai_ok /\ AllIndexed
    /\ nprocs = 3 /\ NumRecords = 5
    /\ RankOrder(SliceSizes) = <<1, 1, 3>>

(* C4 as claimed: for N >= P, once the index is built the slice of the     *)
(* last rank and the slice of any other rank differ in length by at most   *)
(* one.                                                                    *)
C4_DifferByAtMostOne ==
    (ValidInput /\ AllIndexed) =>
        \A r \in Ranks :
            /\ SliceLen(nprocs - 1) - SliceLen(r) <= 1
            /\ SliceLen(r) - SliceLen(nprocs - 1) <= 1

(* C4 amended: for N >= P, once the index is built the last rank's slice   *)
(* is longer than the slice of any other rank by exactly N mod P, which is *)
(* at most P - 1.                                                          *)
C4_DifferByRemainder ==
    (ValidInput /\ AllIndexed) =>
        \A r \in Ranks :
            r # nprocs - 1 =>
                /\ SliceLen(nprocs - 1) - SliceLen(r) = NumRecords % nprocs
                /\ SliceLen(nprocs - 1) - SliceLen(r) <= nprocs - 1

C4_Witness ==
    /\ ValidInput /\ AllIndexed
    /\ \E r \in Ranks : SliceLen(nprocs - 1) - SliceLen(r) = 2

(* C5: the scatter hands rank r the contiguous block of the .fai record    *)
(* list that starts at the sum of the slice sizes of the ranks below r, in *)
(* .fai line order; the slices of ranks 0..P-1 concatenated are the full   *)
(* record list.                                                            *)
C5_ContiguousBlocks ==
    (fai_ok /\ AllIndexed) =>
        /\ \A r \in Ranks :
              myrecords[r] = SubSeq(FaiRecords, SumTo(SliceSizes, r) + 1,
                                    SumTo(SliceSizes, r) + SliceLen(r))
        /\ Flatten(RankOrder(myrecords)) = FaiRecords

C5_Witness ==
    /\ fai_ok /\ AllIndexed
    /\ nprocs = 3 /\ NumRecords = 4
    /\ \A r \in Ranks : myrecords[r] # <<>>
    /\ \E i, j \in 1 .. NumRecords : FaiRecords[i].len # FaiRecords[j].len

(* C6: on a rank with a non-empty slice, materialization returns one read  *)
(* per local record, in slice order, and the i-th read is as long as the   *)
(* i-th record's len.                                                      *)
C6_ReadPerRecord ==
    \A r \in Ranks :
        (Materialized(r) /\ myrecords[r] # <<>>) =>
            /\ Len(reads[r]) = Len(myrecords[r])
            /\ \A i \in 1 .. Len(reads[r]) : Len(reads[r][i]) = myrecords[r][i].len

C6_Witness ==
    \E r \in Ranks :
        /\ Materialized(r) /\ Len(myrecords[r]) >= 2
        /\ myrecords[r][1].len # myrecords[r][2].len
        /\ myrecords[r][1].bases < myrecords[r][1].len

(* C7: for a well-formed FASTA file and its index, the reads materialized  *)
(* by ranks 0..P-1, in rank order and slice order, are the sequences of    *)
(* the file in file order, without header or line terminator bytes.        *)
C7_ReadsAreFileSequences ==
    (fai_ok /\ AllMaterialized) => Flatten(RankOrder(reads)) = seqs

C7_Witness ==
    /\ fai_ok /\ AllMaterialized
    /\ nprocs = 3 /\ Len(seqs) = 5 /\ linebases = 3
    /\ \E i, j \in 1 .. 5 : seqs[i] # seqs[j]
    /\ fasta[Len(fasta)] # NL

TheEight == <<"ScatterCount", "ScatterRecords", "FileOpen", "FileRead",
              "FileClose", "AllReduce", "AllToAll", "AllToAllV">>

IsPrefix(a, b) == Len(a) <= Len(b) /\ a = SubSeq(b, 1, Len(a))

RECURSIVE OnlyEight(_)
OnlyEight(s) ==
    IF s = <<>> THEN <<>>
    ELSE IF Head(s) \in Range(TheEight) THEN <<Head(s)>> \o OnlyEight(Tail(s))
    ELSE OnlyEight(Tail(s))

(* C8 as claimed: every rank issues the collectives ScatterCount,          *)
(* ScatterRecords, FileOpen, FileRead, FileClose, HLL AllReduce, AllToAll, *)
(* AllToAllV in this order and no other collective between them.           *)
C8_ExactlyTheEight ==
    \A r \in Ranks : IsPrefix(issued[r], TheEight)

Before(s, i, c) == \E j \in 1 .. (i - 1) : s[j] = c

(* C8 amended: every rank issues these eight collectives in this order,    *)
(* each once, but not back to back: between ScatterRecords and FileOpen it *)
(* also issues the Gather and Gatherv of PrintInfo, and between FileClose  *)
(* and the HLL AllReduce the Exscan (and log gathers) of GetMyReads.       *)
C8_TheEightInOrder ==
    \A r \in Ranks :
        /\ IsPrefix(OnlyEight(issued[r]), TheEight)
        /\ Routed(r) => OnlyEight(issued[r]) = TheEight
        /\ \A i \in 1 .. Len(issued[r]) :
              LET c == issued[r][i]
              IN  \/ c \in Range(TheEight)
                  \/ /\ c \in {"Gather", "Gatherv"}
                     /\ Before(issued[r], i, "ScatterRecords")
                     /\ ~Before(issued[r], i, "FileOpen")
                  \/ /\ c \in {"Exscan", "LogFlush", "Exscan2", "LogFlush2"}
                     /\ Before(issued[r], i, "FileClose")
                     /\ ~Before(issued[r], i, "AllReduce")

C8_Witness ==
    /\ AllRouted /\ nprocs = 3
    /\ \E r \in Ranks : Len(issued[r]) = 11 /\ issued[r][3] = "Gather"
                        /\ issued[r][8] = "Exscan"

(* C10 as claimed: when the .fai cannot be opened on rank 0, every rank    *)
(* observes the error at index construction: no rank goes on to the        *)
(* collectives after it, and none performs the collective file open.       *)
C10_IndexUnavailable ==
    ~fai_ok =>
        \A r \in Ranks : ~Entered(r, "Gather") /\ ~Entered(r, "FileOpen")


SameCollectives ==
    \A r, q \in Ranks : IsPrefix(issued[r], issued[q]) \/ IsPrefix(issued[q], issued[r])

(* C9: on a valid input (N >= P) all ranks call the same sequence of       *)
(* collectives, no reachable state is a deadlock, and with every rank      *)
(* kept running every rank eventually reaches the ROUTED state.            *)
C9_NoDeadlockAllRouted ==
    /\ [](ValidInput => (SameCollectives /\ (AllRouted \/ ENABLED Next)))
    /\ (ValidInput ~> AllRouted)

C9_Witness ==
    /\ ValidInput /\ AllRouted
    /\ nprocs = 2 /\ NumRecords = 5
    /\ \A r \in Ranks : Len(issued[r]) >= 11

EmptyIndex == fai_ok /\ NumRecords = 0 /\ nprocs = 1

(* C11 as claimed: with an empty index on a single process, construction   *)
(* succeeds, materialization returns an empty read vector without taking   *)
(* anything from a record, and the router returns an empty map: the rank   *)
(* never faults, and it requests no byte range made up from a record.      *)
C11_EmptyIndexSucceeds ==
    EmptyIndex =>
        /\ pc[0] # "crashed"
        /\ Entered(0, "FileOpen") => (startpos[0] = 0 /\ endpos[0] = 0)
        /\ Routed(0) => (reads[0] = <<>> /\ kmermap[0] = {})

(* the end of the byte range of a slice, as computed before the clamp *)
RawEnd(recs) ==
    LET last_record == recs[Len(recs)]
    IN  last_record.pos + last_record.len + (last_record.len \div last_record.bases)

PastEndOfFile(r) == myrecords[r] # <<>> /\ RawEnd(myrecords[r]) > Len(fasta)

(* C12: on a rank whose last record's pos + len + floor(len/bases) exceeds *)
(* the file size, after the clamp every offset the unwrap loop copies from *)
(* lies in [0, endpos - startpos), inside the chunk that was read, and     *)
(* every local read holds all len nucleotides of its sequence.             *)
C12_ClampKeepsCopiesExact ==
    \A r \in Ranks :
        (Materialized(r) /\ PastEndOfFile(r)) =>
            /\ ~overread[r]
            /\ \A i \in 1 .. Len(myrecords[r]) :
                  LET offs == SourceOffsets(myrecords[r][i], startpos[r])
                  IN  /\ \A j \in 1 .. Len(offs) :
                            /\ 0 <= offs[j]
                            /\ offs[j] < endpos[r] - startpos[r]
                            /\ offs[j] < Len(mychunk[r])
                      /\ Len(reads[r][i]) = myrecords[r][i].len
                      /\ reads[r][i] = seqs[displs[r] + i]

C12_Witness ==
    \E r \in Ranks :
        /\ Materialized(r) /\ PastEndOfFile(r)
        /\ endpos[r] = Len(fasta)
        /\ Len(myrecords[r]) >= 2
        /\ nprocs >= 2

(* the rank has clamped endpos and requested [startpos, endpos) *)
Requested(r) == Entered(r, "FileRead")

(* C13 as claimed: on a valid input the byte ranges [startpos, endpos)     *)
(* that two distinct ranks request in the collective read are disjoint.    *)
C13_DisjointByteRanges ==
    ValidInput =>
        \A r, q \in Ranks :
            (r # q /\ Requested(r) /\ Requested(q)) =>
                (endpos[r] <= startpos[q] \/ endpos[q] <= startpos[r])

(* C15 as claimed: on a valid input, after the file size is queried endpos *)
(* is the smaller of its computed value and the file size, so the bytes a  *)
(* rank requests, startpos .. endpos - 1, are all below the file size.     *)
C15_ClampedToFileSize ==
    ValidInput =>
        \A r \in Ranks :
            Requested(r) =>
                /\ endpos[r] = Min(RawEnd(myrecords[r]), Len(fasta))
                /\ endpos[r] <= Len(fasta)
                /\ startpos[r] + Len(mychunk[r]) <= Len(fasta)

(* the canonical k-mers of the sequences of the FASTA file *)
InputKmers == UNION { WindowKmers(seqs[i]) : i \in 1 .. Len(seqs) }

(* the k-mers received by rank r, in buffer order *)
RecvKmers(r) ==
    [i \in 1 .. (Len(recvbuf[r]) \div N_BYTES) |->
        KmerFromBytes(SubSeq(recvbuf[r], (i - 1) * N_BYTES + 1, i * N_BYTES))]

(* C14: for a fixed FASTA file, k, P and hash, the key set a rank ends     *)
(* with is a function of these inputs alone: in every run, whatever the    *)
(* interleaving of the ranks, the order of the k-mers in the receive       *)
(* buffer or the number of times a k-mer is received, rank r ends with the *)
(* k-mers of the file that it owns.                                        *)
C14_KeySetDetermined ==
    fai_ok =>
        \A r \in Ranks :
            Routed(r) => kmermap[r] = { km \in InputKmers : Owner(km, nprocs) = r }

C14_Witness ==
    /\ fai_ok /\ AllRouted /\ nprocs >= 2
    /\ \E r \in Ranks :
          /\ Len(RecvKmers(r)) > Cardinality(kmermap[r])
          /\ \E a, b \in Ranks : a # b /\ recvcnt[r][a] > 0 /\ recvcnt[r][b] > 0
          /\ \E i, j \in 1 .. Len(RecvKmers(r)) :
                i < j /\ RecvKmers(r)[i] = RecvKmers(r)[j]
                      /\ \E m \in (j + 1) .. Len(RecvKmers(r)) :
                            \A n \in 1 .. (m - 1) : RecvKmers(r)[n] # RecvKmers(r)[m]

(* the positions in the copied bytes at which a run of the loop begins *)
RunStarts(offs) == { i \in 1 .. Len(offs) : i = 1 \/ offs[i] # offs[i - 1] + 1 }

(* C16: for a local record with bases >= 1 the unwrap loop ends after      *)
(* ceil(len/bases) runs; run j = 0, 1, ... copies min(bases, remaining)    *)
(* consecutive bytes beginning at offset (pos - startpos) + j*(bases + 1)  *)
(* of the chunk, one byte lies between two consecutive runs, and len bytes *)
(* are copied in all.                                                      *)
C16_UnwrapRuns ==
    \A r \in Ranks :
        Materialized(r) =>
            \A i \in 1 .. Len(myrecords[r]) :
                LET rec == myrecords[r][i]
                    offs == SourceOffsets(rec, startpos[r])
                    runs == NumLines(rec.len, rec.bases)
                    starts == RunStarts(offs)
                IN  rec.bases >= 1 =>
                        /\ Len(offs) = rec.len
                        /\ Len(reads[r][i]) = rec.len
                        /\ Cardinality(starts) = runs
                        /\ \A j \in 0 .. (runs - 1) :
                              LET first == j * rec.bases + 1
                                  cnt == Min(rec.bases, rec.len - j * rec.bases)
                              IN  /\ first \in starts
                                  /\ offs[first] = (rec.pos - startpos[r]) + j * (rec.bases + 1)
                                  /\ \A n \in 0 .. (cnt - 1) : offs[first + n] = offs[first] + n
                                  /\ j > 0 => offs[first] = offs[first - 1] + 2

C16_Witness ==
    \E r \in Ranks :
        /\ Materialized(r) /\ Len(myrecords[r]) >= 2
        /\ LET rec == myrecords[r][2]
           IN  /\ rec.bases = 3 /\ rec.len = 8
               /\ Cardinality(RunStarts(SourceOffsets(rec, startpos[r]))) = 3
               /\ reads[r][2] = Reads[1]

(* the buckets rank q filled, one per destination *)
Buckets(q) == Partition(reads[q], nprocs)

(* C17: on every rank and for every destination i, sendcnt[i] is a         *)
(* multiple of the k-mer width N_BYTES, and when the packing loop comes to *)
(* bucket i the bucket holds sendcnt[i] / N_BYTES k-mers (the assertion of *)
(* the loop).                                                              *)
C17_SendCountMultipleOfW ==
    \A r \in Ranks :
        \A i \in Ranks :
            /\ sendcnt[r][i] % N_BYTES = 0
            /\ pc[r] = "AllToAll" =>
                  Len(kmerbuckets[r][i]) = sendcnt[r][i] \div N_BYTES

C17_Witness ==
    \E r \in Ranks :
        /\ pc[r] = "AllToAll" /\ nprocs >= 2
        /\ \E i, j \in Ranks :
              /\ Len(kmerbuckets[r][i]) >= 2 /\ sendcnt[r][i] >= 2 * N_BYTES
              /\ kmerbuckets[r][j] = <<>> /\ sendcnt[r][j] = 0

(* rank r has computed its displacements and packed its send buffer *)
Packed(r) == Entered(r, "AllToAllV")

(* the bytes of the send buffer of rank r that belong to destination i *)
Slot(r, i) == (sdispls[r][i] + 1) .. (sdispls[r][i] + sendcnt[r][i])

EmptyBucket(r, i) == Packed(r) /\ Buckets(r)[i] = <<>>

Serialized(bucket) == Flatten([j \in 1 .. Len(bucket) |-> CopyDataInto(bucket[j])])

(* C20: the exchange is matched and conserving.  After the count           *)
(* all-to-all, recvcnt[j] on rank i is sendcnt[i] on rank j.  After the    *)
(* payload all-to-all-v, the receive buffer of rank r is the buckets that  *)
(* ranks 0, 1, ..., P-1 addressed to r, one after the other: every k-mer   *)
(* of the global read set owned by r is in it, no k-mer of another owner   *)
(* is, and over all ranks as many k-mers are received as seed k-mers were  *)
(* enumerated.                                                             *)
C20_MatchedAndConserving ==
    /\ \A i, j \in Ranks : Packed(i) => recvcnt[i][j] = sendcnt[j][i]
    /\ LET filled == [q \in Ranks |-> Buckets(q)]
       IN  \A r \in Ranks :
               Routed(r) =>
                   /\ recvbuf[r] = Flatten([n \in 1 .. nprocs |-> Serialized(filled[n - 1][r])])
                   /\ \A km \in GlobalKmers :
                         Owner(km, nprocs) = r => km \in Range(RecvKmers(r))
                   /\ \A km \in Range(RecvKmers(r)) : Owner(km, nprocs) = r
    /\ AllRouted =>
          SumTo([r \in Ranks |-> Len(RecvKmers(r))], nprocs)
              = SumTo([q \in Ranks |-> Len(ForeachKmer(reads[q], kmer_size))], nprocs)

C20_Witness ==
    /\ AllRouted /\ nprocs = 3
    /\ \E r, a, b \in Ranks :
          /\ a # b /\ a # r /\ recvcnt[r][a] > 0 /\ recvcnt[r][b] > 0
          /\ sdispls[a][r] > 0
          /\ Len(RecvKmers(r)) >= 3
    /\ SumTo([q \in Ranks |-> Len(ForeachKmer(reads[q], kmer_size))], nprocs) >= 7

(* the pipeline states of a rank: INDEXED once both scatters of the        *)
(* constructor have returned, MATERIALIZED once its reads are unwrapped,   *)
(* SKETCHED once the merge of the sketches has returned, ROUTED once the   *)
(* payload exchange has returned and the map is filled                     *)
Sketched(r) == Entered(r, "AllToAll")

Stage(r) ==
    (IF Indexed(r) THEN 1 ELSE 0) + (IF Materialized(r) THEN 1 ELSE 0)
        + (IF Sketched(r) THEN 1 ELSE 0) + (IF Routed(r) THEN 1 ELSE 0)

(* no state of the pipeline is reached without the state before it *)
InOrder(r) ==
    /\ Routed(r) => Sketched(r)
    /\ Sketched(r) => Materialized(r)
    /\ Materialized(r) => Indexed(r)

(* a step takes a rank to the next state of the pipeline, or leaves it     *)
(* where it is                                                             *)
OneStageAtATime == \A r \in Ranks : Stage(r)' \in {Stage(r), Stage(r) + 1}

(* the transitions after INDEXED are completed by a rank only after every  *)
(* rank is in the transition's collective: the collective open of the      *)
(* FASTA file, the merge of the sketches, the payload all-to-all-v         *)
LaterTransitionsSynchronize ==
    \A r \in Ranks :
        /\ Materialized(r) => AllEntered("FileOpen")
        /\ Sketched(r) => AllEntered("AllReduce")
        /\ Routed(r) => AllEntered("AllToAll") /\ AllEntered("AllToAllV")

TotalsKnown(r) == Entered(r, "AllToAllV") \/ pc[r] = "crashed"

(* C22: totsend and totrecv are the exact sums of sendcnt and recvcnt,     *)
(* also past 2^31 - 1: the rank goes on to allocate buffers of exactly     *)
(* these sizes, and the number of k-mers it deserializes, totrecv divided  *)
(* by the width of a k-mer, is the number of k-mers it is sent.            *)
C22_TotalsExact ==
    \A r \in Ranks :
        TotalsKnown(r) =>
            /\ pc[r] # "crashed"
            /\ ExactTotal(totsend[r], sendcnt[r], nprocs)
            /\ ExactTotal(totrecv[r], recvcnt[r], nprocs)
            /\ totrecv[r] \div N_BYTES = KmersIn(recvcnt[r], nprocs)

====
